---- MODULE Spec2Model ----
(***************************************************************************)
(* path-language-server (src/src/main.rs): the document store behind one   *)
(* tokio Mutex, the position translation, the path-suffix matcher, the     *)
(* path resolution and the sorted directory listing.                       *)
(*                                                                         *)
(* A text is a sequence of characters (Unicode scalar values, the unit     *)
(* ropey indexes by); a character is a one-character string.  Offsets are  *)
(* 0-based as in the code: offset i is the gap before the TLA+ index i+1.  *)
(***************************************************************************)
EXTENDS Integers, Sequences, FiniteSets, TLC

VARIABLES document_map, replay, req, holder, crashed, inp, out, stage

vars == <<document_map, replay, req, holder, crashed, inp, out, stage>>

serverVars == <<document_map, replay, req, holder, crashed>>

pureVars == <<inp, out, stage>>

-----------------------------------------------------------------------------
(* Bounds of the model. *)

MaxLen == 2

MaxReq == 2

MaxBatch == 2

MaxLine == 1

MaxCol == 2

MaxLineLen == 5

MaxTok == 4

MaxEntries == 3

-----------------------------------------------------------------------------
(* Characters. *)

LF == "\n"

Astral == "U+1D11E"

WordChars ==
    {"a", "b", "f", "o", "r", "l", "i", "e", "p", "t", "h", "k", "q", "A",
     "6", "1", Astral}

GeneralPunct == {"@", ".", "-", "+", "#", "$", "%", "?", "!", ",", ";", "~", "&"}

GeneralChars == WordChars \cup GeneralPunct

(* The grave accent, which a TLA+ string cannot hold. *)
Backtick == "GRAVE"

Escapers == {"^", Backtick}

Whitespace == {" ", LF}

SchemeChars == WordChars \cup {"+", "-", "."}

NoneVal == [tag |-> "none"]

Some(v) == [tag |-> "some", val |-> v]

TextsUpTo(alphabet, n) == UNION {[1..k -> alphabet] : k \in 0..n}

Drop(s, k) == SubSeq(s, k + 1, Len(s))

Take(s, k) == SubSeq(s, 1, k)

starts_with(s, p) == Len(p) <= Len(s) /\ Take(s, Len(p)) = p

ends_with(s, p) == Len(p) <= Len(s) /\ Drop(s, Len(s) - Len(p)) = p

-----------------------------------------------------------------------------
(* ropey::Rope, as far as main.rs uses it. *)

len_chars(rope) == Len(rope)

len_lines(rope) == 1 + Cardinality({i \in 1..Len(rope) : rope[i] = LF})

RECURSIVE ScanLines(_, _, _)
ScanLines(rope, line, i) ==
    IF line = 0 THEN i
    ELSE IF i >= Len(rope) THEN Len(rope)
    ELSE ScanLines(rope, IF rope[i + 1] = LF THEN line - 1 ELSE line, i + 1)

(* Rope::line_to_char panics when line_idx > len_lines(). *)
line_to_char_ok(rope, line) == line <= len_lines(rope)

line_to_char(rope, line) == ScanLines(rope, line, 0)

(* Rope::slice and Rope::remove panic when start > end or end > len_chars(). *)
range_ok(rope, start, end) == start <= end /\ end <= len_chars(rope)

slice(rope, start, end) == SubSeq(rope, start + 1, end)

remove(rope, start, end) == Take(rope, start) \o Drop(rope, end)

insert(rope, at, text) == Take(rope, at) \o text \o Drop(rope, at)

position_to_offset(rope, position) ==
    line_to_char(rope, position.line) + position.character

-----------------------------------------------------------------------------
(* compile_path_regex: the regex                                            *)
(*   prefix (?: path_start? (?: (?: / component+ )+ /? | / ) optional ) postfix *)
(* with prefix "" and postfix "$".  Each piece maps an offset of the        *)
(* haystack to the set of offsets a match of the piece can end at.          *)

At(s, i) == IF i < Len(s) THEN s[i + 1] ELSE "EOF"

(* A first component that takes "=" as every later component does. *)
first_component_with_equals(s, i) ==
    (IF At(s, i) \in GeneralChars \cup {"="} THEN {i + 1} ELSE {})
    \cup (IF At(s, i) \in Escapers /\ At(s, i + 1) \in Whitespace
          THEN {i + 2} ELSE {})

(* (?:[\w@.\-+#$%?!,;~&]|[\^`]\s) *)
first_component(s, i) ==
    (IF At(s, i) \in GeneralChars THEN {i + 1} ELSE {})
    \cup (IF At(s, i) \in Escapers /\ At(s, i + 1) \in Whitespace
          THEN {i + 2} ELSE {})

(* (?:{first_component}|=) *)
component(s, i) ==
    first_component(s, i) \cup (IF At(s, i) = "=" THEN {i + 1} ELSE {})

RECURSIVE first_component_star(_, _)
first_component_star(s, P) ==
    LET step == UNION {first_component(s, p) : p \in P}
    IN  IF step \subseteq P THEN P ELSE first_component_star(s, P \cup step)

first_component_plus(s, i) == first_component_star(s, first_component(s, i))

RECURSIVE component_star(_, _)
component_star(s, P) ==
    LET step == UNION {component(s, p) : p \in P}
    IN  IF step \subseteq P THEN P ELSE component_star(s, P \cup step)

component_plus(s, i) == component_star(s, component(s, i))

RECURSIVE scheme_star(_, _)
scheme_star(s, P) ==
    LET step == {p + 1 : p \in {q \in P : At(s, q) \in SchemeChars}}
    IN  IF step \subseteq P THEN P ELSE scheme_star(s, P \cup step)

(* [\w+\-.]+://?? *)
url_prefix(s, i) ==
    LET scheme == scheme_star(s, {i}) \ {i}
        colon  == {p + 2 : p \in {q \in scheme : At(s, q) = ":" /\ At(s, q + 1) = "/"}}
    IN  colon \cup {p + 1 : p \in {q \in colon : At(s, q) = "/"}}

(* (?:{first_component}+|~|{url_prefix}) *)
path_start(s, i) ==
    first_component_plus(s, i)
    \cup (IF At(s, i) = "~" THEN {i + 1} ELSE {})
    \cup url_prefix(s, i)

(* (?:/{component}+)+ *)
RECURSIVE groups_star(_, _)
groups_star(s, P) ==
    LET step == UNION {component_plus(s, p + 1) : p \in {q \in P : At(s, q) = "/"}}
    IN  IF step \subseteq P THEN P ELSE groups_star(s, P \cup step)

groups_plus(s, P) ==
    groups_star(s, UNION {component_plus(s, p + 1) : p \in {q \in P : At(s, q) = "/"}})

(* The offsets a match that starts at offset i can end at, before the "$". *)
compile_path_regex(s, i, match_single_file) ==
    LET starts == {i} \cup path_start(s, i)
        groups == groups_plus(s, starts)
        body   == groups
                  \cup {p + 1 : p \in {q \in groups : At(s, q) = "/"}}
                  \cup {p + 1 : p \in {q \in starts : At(s, q) = "/"}}
    IN  body \cup (IF match_single_file THEN path_start(s, i) ELSE {})

(* regex.find: the leftmost start from which the regex, "$" included,    *)
(* matches; the match is the slice from there to the end of src.          *)
MatchStarts(src, match_single_file) ==
    {i \in 0..Len(src) : Len(src) \in compile_path_regex(src, i, match_single_file)}

Min(S) == CHOOSE x \in S : \A y \in S : x <= y

get_path_suffix(src, match_single_file) ==
    LET starts == MatchStarts(src, match_single_file)
    IN  IF starts = {} THEN NoneVal ELSE Some(Drop(src, Min(starts)))

-----------------------------------------------------------------------------
(* std::path::Path: whether it has a root, and its components in order     *)
(* (Path::components drops empty segments and every "." but a leading      *)
(* one; ".." stays).  A component is a sequence of characters.             *)

CurDir == <<".">>

ParentDir == <<".", ".">>

FirstIndex(s, cs) ==
    IF \E i \in 1..Len(s) : s[i] \in cs
    THEN Min({i \in 1..Len(s) : s[i] \in cs})
    ELSE 0

RECURSIVE Split(_)
Split(s) ==
    LET k == FirstIndex(s, {"/"})
    IN  IF k = 0 THEN <<s>> ELSE <<Take(s, k - 1)>> \o Split(Drop(s, k))

IsNamed(seg) == seg # <<>> /\ seg # CurDir

(* Path::new(s), read through Path::components. *)
path_new(s) ==
    LET segs == Split(s)
        root == starts_with(s, <<"/">>)
        lead == IF ~root /\ Head(segs) = CurDir THEN <<CurDir>> ELSE <<>>
    IN  [root |-> root, comps |-> lead \o SelectSeq(segs, IsNamed)]

is_relative(path) == ~path.root

(* Path::parent: None when the path ends in the root or is empty. *)
parent(path) ==
    IF path.comps = <<>> THEN NoneVal
    ELSE Some([root |-> path.root, comps |-> Take(path.comps, Len(path.comps) - 1)])

(* Path::join(base, path): an absolute path replaces base; the "." that   *)
(* led a relative path is no longer leading and is dropped.                *)
join(base, path) ==
    IF path.root THEN path
    ELSE [root |-> base.root,
          comps |-> base.comps \o SelectSeq(path.comps, IsNamed)]

(* expand_tilde: the first component is Normal("~") and HOME is set. *)
expand_tilde(path, home) ==
    IF /\ ~path.root
       /\ path.comps # <<>>
       /\ Head(path.comps) = <<"~">>
       /\ home.tag = "some"
    THEN join(path_new(home.val), [root |-> FALSE, comps |-> Tail(path.comps)])
    ELSE path

-----------------------------------------------------------------------------
(* url::Url for the file scheme: Url::from_str then Url::to_file_path.     *)
(* The parser cuts the path at the first "?" or "#", removes "." and ".."  *)
(* segments, and to_file_path percent-decodes every segment and fails on a *)
(* host other than the empty one or localhost.                            *)

FileScheme == <<"f", "i", "l", "e", ":", "/", "/">>

Localhost == <<"l", "o", "c", "a", "l", "h", "o", "s", "t">>

RECURSIVE percent_decode(_)
percent_decode(seg) ==
    IF seg = <<>> THEN <<>>
    ELSE IF starts_with(seg, <<"%", "6", "1">>)
         THEN <<"a">> \o percent_decode(Drop(seg, 3))
         ELSE <<Head(seg)>> \o percent_decode(Tail(seg))

RECURSIVE remove_dot_segments(_, _)
remove_dot_segments(segs, acc) ==
    IF segs = <<>> THEN acc
    ELSE LET seg == Head(segs)
         IN  remove_dot_segments(Tail(segs),
                 IF seg = CurDir \/ seg = <<>> THEN acc
                 ELSE IF seg = ParentDir
                      THEN (IF acc = <<>> THEN acc ELSE Take(acc, Len(acc) - 1))
                      ELSE acc \o <<percent_decode(seg)>>)

file_url_to_path(s) ==
    LET rest  == Drop(s, Len(FileScheme))
        cut   == FirstIndex(rest, {"?", "#"})
        hier  == IF cut = 0 THEN rest ELSE Take(rest, cut - 1)
        slash == FirstIndex(hier, {"/"})
        host  == IF slash = 0 THEN hier ELSE Take(hier, slash - 1)
        tail  == IF slash = 0 THEN <<>> ELSE Drop(hier, slash)
    IN  IF host \in {<<>>, Localhost}
        THEN Some([root |-> TRUE, comps |-> remove_dot_segments(Split(tail), <<>>)])
        ELSE NoneVal

(* A document's uri: its scheme and, for a file uri, its path text. *)
to_file_path(uri) ==
    IF uri.scheme = "file" THEN Some(path_new(uri.path)) ELSE NoneVal

-----------------------------------------------------------------------------
(* Backend::completion, lines 141-165: the directory to enumerate.         *)

Panic(where) == [tag |-> "panic", at |-> where]

completion_dir_path(matched_path, uri, home) ==
    LET decoded == IF starts_with(matched_path, FileScheme)
                   THEN file_url_to_path(matched_path)
                   ELSE Some(path_new(matched_path))
    IN  IF decoded.tag = "none" THEN NoneVal
        ELSE IF to_file_path(uri).tag = "none" THEN Panic("unwrap152")
        ELSE LET path0      == expand_tilde(decoded.val, home)
                 parent_dir == parent(to_file_path(uri).val)
                 path       == IF parent_dir.tag = "some" /\ is_relative(path0)
                               THEN join(parent_dir.val, path0)
                               ELSE path0
             IN  IF ends_with(matched_path, <<"/">>) THEN Some(path)
                 ELSE parent(path)

(* Backend::completion, lines 136-139: the cursor and the line before it. *)
completion_cursor(rope, position) ==
    IF ~line_to_char_ok(rope, position.line) THEN Panic("line_to_char137")
    ELSE LET line_start == line_to_char(rope, position.line)
             offset     == line_start + position.character
         IN  IF ~range_ok(rope, line_start, offset) THEN Panic("slice139")
             ELSE Some([line_start |-> line_start, offset |-> offset,
                        line_until_cursor |-> slice(rope, line_start, offset)])

(* Backend::completion, lines 136-165: from the buffer to the directory. *)
completion_locate(rope, position, uri, home) ==
    LET cursor == completion_cursor(rope, position)
    IN  IF cursor.tag = "panic" THEN cursor
        ELSE LET token == get_path_suffix(cursor.val.line_until_cursor, FALSE)
             IN  IF token.tag = "none" THEN NoneVal
                 ELSE completion_dir_path(token.val, uri, home)

-----------------------------------------------------------------------------
(* The filesystem collaborator: the directories (each the sequence of its  *)
(* components from the root), the symbolic links to directories, the       *)
(* process's working directory, and read_dir's entries per directory in   *)
(* the order the filesystem returns them.                                  *)

RECURSIVE FsWalk(_, _, _)
FsWalk(fs, cur, rest) ==
    IF rest = <<>> THEN Some(cur)
    ELSE LET c    == Head(rest)
             next == cur \o <<c>>
         IN  IF c = CurDir THEN FsWalk(fs, cur, Tail(rest))
             ELSE IF c = ParentDir
                  THEN FsWalk(fs, Take(cur, IF cur = <<>> THEN 0 ELSE Len(cur) - 1), Tail(rest))
             ELSE IF \E l \in fs.links : l.from = next
                  THEN FsWalk(fs, (CHOOSE l \in fs.links : l.from = next).to, Tail(rest))
             ELSE IF next \in fs.dirs THEN FsWalk(fs, next, Tail(rest))
             ELSE NoneVal

(* The directory std::fs::read_dir(path) opens, or none (an io::Error). *)
fs_read_dir(fs, path) ==
    IF ~path.root /\ path.comps = <<>> THEN NoneVal
    ELSE FsWalk(fs, IF path.root THEN <<>> ELSE fs.cwd, path.comps)

-----------------------------------------------------------------------------
(* read_dir_sorted. *)

CodePoint(c) ==
    CASE c = "." -> 46
      [] c = "A" -> 65
      [] c = "B" -> 66
      [] c = "a" -> 97
      [] c = "b" -> 98
      [] c = "f" -> 102

to_lowercase(name) ==
    [i \in 1..Len(name) |->
        CASE name[i] = "A" -> "a" [] name[i] = "B" -> "b" [] OTHER -> name[i]]

(* str::cmp: lexicographic by code point. *)
RECURSIVE str_cmp(_, _)
str_cmp(a, b) ==
    IF a = <<>> /\ b = <<>> THEN "Equal"
    ELSE IF a = <<>> THEN "Less"
    ELSE IF b = <<>> THEN "Greater"
    ELSE IF CodePoint(Head(a)) < CodePoint(Head(b)) THEN "Less"
    ELSE IF CodePoint(Head(a)) > CodePoint(Head(b)) THEN "Greater"
    ELSE str_cmp(Tail(a), Tail(b))

is_dir(entry) == entry.kind = "dir"

is_symlink(entry) == entry.kind = "symlink"

(* The closure given to sort_by, lines 211-225. *)
compare_entries(a, b) ==
    LET a_name == to_lowercase(a.name)
        b_name == to_lowercase(b.name)
    IN  IF is_dir(a) /\ is_dir(b) THEN str_cmp(a_name, b_name)
        ELSE IF is_dir(a) /\ ~is_dir(b) THEN "Less"
        ELSE IF ~is_dir(a) /\ is_dir(b) THEN "Greater"
        ELSE str_cmp(a_name, b_name)

(* slice::sort_by is stable: an element goes after every element that     *)
(* does not compare Greater than it.                                      *)
RECURSIVE sort_by(_)
sort_by(entries) ==
    IF entries = <<>> THEN <<>>
    ELSE LET n      == Len(entries)
             x      == entries[n]
             sorted == sort_by(Take(entries, n - 1))
             keep   == Cardinality({i \in 1..(n - 1) :
                                     compare_entries(sorted[i], x) # "Greater"})
         IN  Take(sorted, keep) \o <<x>> \o Drop(sorted, keep)

(* The filter of lines 206-209. *)
visible(entry, show_hidden) ==
    ~is_symlink(entry) /\ (show_hidden \/ ~starts_with(entry.name, <<".">>))

read_dir_sorted(fs_entries, show_hidden) ==
    LET Keep(e) == visible(e, show_hidden)
    IN  sort_by(SelectSeq(fs_entries, Keep))

(* The CompletionItem of lines 173-190. *)
completion_item(entry) ==
    [label |-> entry.name,
     kind  |-> IF entry.kind = "dir" THEN "FOLDER"
               ELSE IF entry.kind = "file" THEN "FILE" ELSE "NONE"]

completion_items(fs, dir_path) ==
    LET dir == fs_read_dir(fs, dir_path)
    IN  IF dir.tag = "none" \/ dir.val \notin DOMAIN fs.list THEN NoneVal
        ELSE LET entries == read_dir_sorted(fs.list[dir.val], FALSE)
             IN  Some([i \in 1..Len(entries) |-> completion_item(entries[i])])

-----------------------------------------------------------------------------
(* The server: Backend behind tower-lsp.  Every handler is a task that     *)
(* runs from one await to the next; a request waits at                     *)
(* self.document_map.lock().await once its first log_message has been      *)
(* sent.  A panic of a handler unwinds through Server::serve and main: the *)
(* process is gone and nothing runs any more (crashed).  A handler that    *)
(* returns leaves its slot idle; the response of a completion is the       *)
(* subject of SpecResolve and SpecDir.                                     *)

FileUri == [scheme |-> "file", path |-> <<"/", "a", "/", "f">>]

OtherUri == [scheme |-> "untitled", path |-> <<"f">>]

Uris == {FileUri, OtherUri}

ServerHome == Some(<<"/", "a">>)

ServerFs ==
    [dirs  |-> {<<>>, <<<<"a">>>>},
     links |-> {},
     cwd   |-> <<>>,
     list  |-> (<<>> :> <<[name |-> <<"b">>, kind |-> "file"],
                          [name |-> <<"a">>, kind |-> "dir"]>>)
               @@ (<<<<"a">>>> :> <<[name |-> <<"f">>, kind |-> "file"]>>)]

Slots == DOMAIN req

Idle == [kind |-> "none", uri |-> NoneVal, pc |-> "idle", n |-> 0, ranged |-> 0,
         cur |-> NoneVal, res |-> NoneVal]

(* A lock that is handed out to whoever asks. *)
LockAlwaysFree == TRUE

(* tokio::sync::Mutex::lock: the guard is handed out when nobody holds it. *)
LockFree == holder = 0

(* A change whose text goes to the front of the buffer. *)
apply_change_at_front(doc, change) ==
    IF doc.tag = "none" THEN Panic("unwrap100")
    ELSE LET rope == doc.val
             rg   == change.range.val
         IN  IF ~line_to_char_ok(rope, rg.start.line)
                \/ ~line_to_char_ok(rope, rg.end.line)
             THEN Panic("line_to_char199")
             ELSE LET start == position_to_offset(rope, rg.start)
                      end   == position_to_offset(rope, rg.end)
                  IN  IF ~range_ok(rope, start, end) THEN Panic("remove105")
                      ELSE Some(insert(remove(rope, start, end), 0, change.text))

(* did_change, lines 100-106: one change with a range. *)
apply_change(doc, change) ==
    IF doc.tag = "none" THEN Panic("unwrap100")
    ELSE LET rope == doc.val
             rg   == change.range.val
         IN  IF ~line_to_char_ok(rope, rg.start.line)
                \/ ~line_to_char_ok(rope, rg.end.line)
             THEN Panic("line_to_char199")
             ELSE LET start == position_to_offset(rope, rg.start)
                      end   == position_to_offset(rope, rg.end)
                  IN  IF ~range_ok(rope, start, end) THEN Panic("remove105")
                      ELSE Some(insert(remove(rope, start, end), start, change.text))

(* An assertion that lets every text pass. *)
assert_nothing(text) == TRUE

(* did_change, line 111: assert!(change.text.is_empty()). *)
assert_is_empty(text) == text = <<>>

Step(r, new) == req' = [req EXCEPT ![r] = new] /\ UNCHANGED pureVars

Abort(r, panic) ==
    /\ crashed' = TRUE
    /\ Step(r, [req[r] EXCEPT !.pc = "panicked", !.res = panic])
    /\ UNCHANGED <<document_map, replay, holder>>

(* A request arrives and its handler runs up to the lock. *)
receive(r, kind, uri) ==
    /\ ~crashed
    /\ req[r].pc = "idle"
    /\ \A q \in Slots : q < r => req[q].pc # "idle"
    /\ Step(r, [Idle EXCEPT !.kind = kind, !.uri = uri, !.pc = "lock"])
    /\ UNCHANGED <<document_map, replay, holder, crashed>>

(* did_open, lines 85-89: the guard lives for the insert alone. *)
did_open(r, text) ==
    /\ ~crashed
    /\ req[r].kind = "did_open" /\ req[r].pc = "lock"
    /\ LockFree
    /\ document_map' = [document_map EXCEPT ![req[r].uri] = Some(text)]
    /\ replay' = [replay EXCEPT ![req[r].uri] = Some(text)]
    /\ Step(r, Idle)
    /\ UNCHANGED <<holder, crashed>>

(* did_change, line 97. *)
did_change_lock(r) ==
    /\ ~crashed
    /\ req[r].kind = "did_change" /\ req[r].pc = "lock"
    /\ LockFree
    /\ holder' = r
    /\ Step(r, [req[r] EXCEPT !.pc = "loop"])
    /\ UNCHANGED <<document_map, replay, crashed>>

(* The replay on a plain string: the line's first offset is found by      *)
(* counting the line breaks before it, and the edit is one literal splice. *)
PlainLineStart(str, line) ==
    LET breaks == {i \in 1..Len(str) : str[i] = LF}
    IN  IF line = 0 THEN 0
        ELSE IF Cardinality(breaks) < line THEN Len(str)
        ELSE CHOOSE i \in breaks : Cardinality({j \in breaks : j <= i}) = line

PlainOffset(str, position) == PlainLineStart(str, position.line) + position.character

PlainSplice(str, start, end, text) ==
    [i \in 1..(Len(str) - (end - start) + Len(text)) |->
        IF i <= start THEN str[i]
        ELSE IF i <= start + Len(text) THEN text[i - start]
        ELSE str[i - Len(text) + (end - start)]]

Replayed(doc, change) ==
    IF doc.tag = "none" THEN doc
    ELSE Some(PlainSplice(doc.val,
                          PlainOffset(doc.val, change.range.val.start),
                          PlainOffset(doc.val, change.range.val.end),
                          change.text))

(* did_change, lines 98-106: the next change of the batch has a range. *)
did_change_ranged(r, change) ==
    /\ ~crashed
    /\ req[r].kind = "did_change" /\ req[r].pc = "loop"
    /\ req[r].n < MaxBatch
    /\ LET u       == req[r].uri
           changed == apply_change(document_map[u], change)
       IN  IF changed.tag = "panic" THEN Abort(r, changed)
           ELSE /\ Len(changed.val) <= MaxLen
                /\ document_map' = [document_map EXCEPT ![u] = changed]
                /\ replay' = [replay EXCEPT ![u] = Replayed(replay[u], change)]
                /\ Step(r, [req[r] EXCEPT !.n = @ + 1, !.ranged = @ + 1])
                /\ UNCHANGED <<holder, crashed>>

(* did_change, lines 107-110: the next change has no range; the handler   *)
(* awaits log_message with the guard held.                                *)
did_change_rangeless(r, text) ==
    /\ ~crashed
    /\ req[r].kind = "did_change" /\ req[r].pc = "loop"
    /\ req[r].n < MaxBatch
    /\ Step(r, [req[r] EXCEPT !.pc = "elog", !.cur = Some(text)])
    /\ UNCHANGED <<document_map, replay, holder, crashed>>

(* did_change, line 111. *)
did_change_assert(r) ==
    /\ ~crashed
    /\ req[r].kind = "did_change" /\ req[r].pc = "elog"
    /\ IF assert_is_empty(req[r].cur.val)
       THEN /\ Step(r, [req[r] EXCEPT !.pc = "loop", !.n = @ + 1, !.cur = NoneVal])
            /\ UNCHANGED <<document_map, replay, holder, crashed>>
       ELSE Abort(r, Panic("assert111"))

(* did_change, line 115: the batch is over and the guard is dropped. *)
did_change_return(r) ==
    /\ ~crashed
    /\ req[r].kind = "did_change" /\ req[r].pc = "loop"
    /\ holder' = 0
    /\ Step(r, Idle)
    /\ UNCHANGED <<document_map, replay, crashed>>

(* did_close, lines 123-127 (did_save is the same): a log line only. *)
did_close(r, uri) ==
    /\ ~crashed
    /\ req[r].pc = "idle"
    /\ Step(r, Idle)
    /\ UNCHANGED <<document_map, replay, holder, crashed>>

(* completion, line 134. *)
completion_lock(r) ==
    /\ ~crashed
    /\ req[r].kind = "completion" /\ req[r].pc = "lock"
    /\ LockFree
    /\ holder' = r
    /\ Step(r, [req[r] EXCEPT !.pc = "read"])
    /\ UNCHANGED <<document_map, replay, crashed>>

(* completion, lines 135-165: the buffer is read and the directory found. *)
completion_read(r, position) ==
    /\ ~crashed
    /\ req[r].kind = "completion" /\ req[r].pc = "read"
    /\ LET doc == document_map[req[r].uri]
           dir == IF doc.tag = "none" THEN Panic("unwrap136")
                  ELSE completion_locate(doc.val, position, req[r].uri, ServerHome)
       IN  CASE dir.tag = "panic" -> Abort(r, dir)
             [] dir.tag = "none" ->
                  /\ holder' = 0
                  /\ Step(r, Idle)
                  /\ UNCHANGED <<document_map, replay, crashed>>
             [] dir.tag = "some" ->
                  /\ Step(r, [req[r] EXCEPT !.pc = "enum", !.cur = dir])
                  /\ UNCHANGED <<document_map, replay, holder, crashed>>

(* completion, lines 167-195: the blocking read_dir, then the response;   *)
(* the guard is dropped as the handler returns.                           *)
completion_enumerate(r) ==
    /\ ~crashed
    /\ req[r].kind = "completion" /\ req[r].pc = "enum"
    /\ completion_items(ServerFs, req[r].cur.val).tag \in {"none", "some"}
    /\ holder' = 0
    /\ Step(r, Idle)
    /\ UNCHANGED <<document_map, replay, crashed>>

PureOff == inp = NoneVal /\ out = NoneVal /\ stage = "off"

ServerInit(slots) ==
    /\ document_map = [u \in Uris |-> NoneVal]
    /\ replay = [u \in Uris |-> NoneVal]
    /\ req = [r \in slots |-> Idle]
    /\ holder = 0
    /\ crashed = FALSE

(* The concurrent server: MaxReq handlers in flight, short texts. *)
ConcTexts == {<<>>, <<"/">>}

ConcPositions ==
    {[line |-> 0, character |-> 0], [line |-> 0, character |-> 1],
     [line |-> 1, character |-> 0]}

ConcChanges ==
    [range : {Some(rg) : rg \in [start : ConcPositions, end : ConcPositions]},
     text : ConcTexts]

Init == ServerInit(1..MaxReq) /\ PureOff

Next ==
    \/ \E r \in Slots, kind \in {"did_open", "did_change", "completion"}, u \in Uris :
           receive(r, kind, u)
    \/ \E r \in Slots, text \in ConcTexts : did_open(r, text)
    \/ \E r \in Slots : did_change_lock(r)
    \/ \E r \in Slots, change \in ConcChanges : did_change_ranged(r, change)
    \/ \E r \in Slots, text \in ConcTexts : did_change_rangeless(r, text)
    \/ \E r \in Slots : did_change_assert(r)
    \/ \E r \in Slots : did_change_return(r)
    \/ \E r \in Slots, u \in Uris : did_close(r, u)
    \/ \E r \in Slots : completion_lock(r)
    \/ \E r \in Slots, position \in ConcPositions : completion_read(r, position)
    \/ \E r \in Slots : completion_enumerate(r)

Spec == Init /\ [][Next]_vars

(* One client that sends its next message after the last was handled:     *)
(* every text up to MaxLen characters, every range up to MaxLine/MaxCol.   *)
EditChars == {"/", LF}

EditTexts == TextsUpTo(EditChars, MaxLen)

ChangeTexts == TextsUpTo(EditChars, 1)

Positions == [line : 0..MaxLine, character : 0..MaxCol]

Changes ==
    [range : {Some(rg) : rg \in [start : Positions, end : Positions]},
     text : ChangeTexts]

InitEdit == ServerInit({1}) /\ PureOff

NextEdit ==
    \/ \E r \in Slots, kind \in {"did_open", "did_change", "completion"}, u \in Uris :
           receive(r, kind, u)
    \/ \E r \in Slots, text \in EditTexts : did_open(r, text)
    \/ \E r \in Slots : did_change_lock(r)
    \/ \E r \in Slots, change \in Changes : did_change_ranged(r, change)
    \/ \E r \in Slots, text \in ChangeTexts : did_change_rangeless(r, text)
    \/ \E r \in Slots : did_change_assert(r)
    \/ \E r \in Slots : did_change_return(r)
    \/ \E r \in Slots, u \in Uris : did_close(r, u)
    \/ \E r \in Slots : completion_lock(r)
    \/ \E r \in Slots, position \in Positions : completion_read(r, position)
    \/ \E r \in Slots : completion_enumerate(r)

SpecEdit == InitEdit /\ [][NextEdit]_vars

-----------------------------------------------------------------------------
(* Properties of the server. *)

(* A handler is inside its document-store section while it owns the guard. *)
InSection(r) == req[r].pc \in {"loop", "elog", "read", "enum"}

C2_OneInSection ==
    /\ [](\A r, q \in Slots : (InSection(r) /\ InSection(q)) => r = q)
    /\ [][\A r \in Slots :
            (InSection(r) /\ req'[r] = req[r]) => document_map' = document_map]_vars

C2_Witness ==
    \E r, q \in Slots :
        /\ req[r].kind = "completion" /\ req[r].pc = "enum"
        /\ req[q].kind \in {"did_open", "did_change"} /\ req[q].pc = "lock"

(* C8: an edit with no range and a non-empty text ends the handler in a    *)
(* defect and changes no buffer; an edit with no range and an empty text   *)
(* changes no buffer and hands over to the next edit of the batch.         *)
C8_RangelessEdit ==
    [][\A r \in Slots :
          (req[r].pc = "elog" /\ req'[r] # req[r]) =>
              /\ document_map' = document_map
              /\ IF req[r].cur.val # <<>>
                 THEN crashed' /\ req'[r].pc = "panicked"
                 ELSE /\ ~crashed'
                      /\ req'[r].pc = "loop"
                      /\ req'[r].n = req[r].n + 1]_vars

C8_Witness ==
    \E r \in Slots :
        /\ crashed
        /\ req[r].pc = "panicked"
        /\ req[r].res = Panic("assert111")
        /\ req[r].n >= 1
        /\ req[r].ranged = 0

(* C9: a did_change or completion on a document id that was never opened   *)
(* never returns normally and never changes the document store.            *)
C9_UnknownIdIsDefect ==
    [][\A r \in Slots :
          (/\ InSection(r)
           /\ document_map[req[r].uri] = NoneVal
           /\ req'[r] # req[r]) =>
              /\ req'[r].pc # "idle"
              /\ document_map' = document_map]_vars

-----------------------------------------------------------------------------
(* The functions on their own: Init draws the input, one action applies    *)
(* the function and keeps its result.                                     *)

ServerOff == ServerInit({1})

Pure(result) ==
    /\ stage = "in"
    /\ stage' = "done"
    /\ out' = result
    /\ UNCHANGED <<inp, serverVars>>

(* The matcher at the cursor: completion, lines 136-141. *)
MatchChars == {"a", "=", "/", LF}

MatchExamples ==
    {<<"?", "f", "o", "o", "=", "/", "b", "a", "r">>,
     <<"h", ":", "/", "/", "h", "/", "q", "?", "k", "=", "/", "b">>,
     <<"k", "=", "/", "a", "^", " ", "b", "/">>,
     <<"/", "^", " ", "k", "=", "/", "b">>,
     <<"/", "^", "k", "=", "/", "b">>,
     <<"a", "/", "b", " ", "k", "=", "/", "b", "=", "a">>,
     <<"/", "a", "^", LF, "b">>}

MatchTexts == TextsUpTo(MatchChars, MaxLineLen) \cup MatchExamples

InitMatch ==
    /\ ServerOff
    /\ stage = "in"
    /\ out = NoneVal
    /\ \E rope \in MatchTexts :
         \E line \in 0..MaxLine, character \in 0..(Len(rope) + 1) :
            inp = [rope |-> rope,
                   position |-> [line |-> line, character |-> character]]

completion_token ==
    LET cursor == completion_cursor(inp.rope, inp.position)
    IN  Pure(IF cursor.tag = "panic" THEN cursor
             ELSE Some([cursor |-> cursor.val,
                        token  |-> get_path_suffix(cursor.val.line_until_cursor, FALSE)]))

NextMatch == completion_token

SpecMatch == InitMatch /\ [][NextMatch]_vars

MatchDone == stage = "done" /\ out.tag = "some"

(* The offset at which the cursor's line ends, its line break excluded. *)
LineEnd(rope, line) ==
    IF Cardinality({i \in 1..Len(rope) : rope[i] = LF}) <= line THEN Len(rope)
    ELSE PlainLineStart(rope, line + 1) - 1

(* C3: the token the matcher returns is a suffix of the cursor's line from *)
(* the line start up to the cursor: it ends at the cursor offset, holds no *)
(* line break and no character of another line, for every position whose  *)
(* offset lies inside the buffer.                                          *)
C3_TokenWithinCursorLine ==
    (MatchDone /\ out.val.token.tag = "some") =>
        LET token  == out.val.token.val
            offset == PlainOffset(inp.rope, inp.position)
            start  == offset - Len(token)
        IN  /\ out.val.cursor.offset = offset
            /\ token = slice(inp.rope, start, offset)
            /\ PlainLineStart(inp.rope, inp.position.line) <= start
            /\ offset <= LineEnd(inp.rope, inp.position.line)
            /\ \A i \in 1..Len(token) : token[i] # LF

(* /P: a "/" followed by components of general-class characters, "=" and  *)
(* escaped whitespace, separated by single "/", with an optional last "/". *)
IsPathTail(s) ==
    /\ s # <<>>
    /\ s[1] = "/"
    /\ \A i \in 1..Len(s) :
         \/ s[i] = "/" /\ (i = 1 \/ s[i - 1] # "/")
         \/ s[i] \in GeneralChars \cup {"="}
         \/ s[i] \in Escapers /\ i < Len(s) /\ s[i + 1] \in Whitespace
         \/ s[i] \in Whitespace /\ i > 1 /\ s[i - 1] \in Escapers

(* The indexes of an "=" that ends a key K of general-class characters and *)
(* is followed by /P up to the cursor.                                     *)
KeyEquals(src) ==
    {i \in 2..Len(src) : /\ src[i] = "="
                         /\ src[i - 1] \in GeneralChars
                         /\ IsPathTail(Drop(src, i))}

(* The first index of the run of component characters (general-class      *)
(* characters, "=" and escaped whitespace) that ends at i.                 *)
IsComponentChar(src, k) ==
    \/ src[k] \in GeneralChars \cup {"="}
    \/ src[k] \in Escapers /\ k < Len(src) /\ src[k + 1] \in Whitespace
    \/ src[k] \in Whitespace /\ k > 1 /\ src[k - 1] \in Escapers

RunStart(src, i) ==
    Min({j \in 1..i : \A k \in j..i : IsComponentChar(src, k)})

(* C4 as stated: for every line prefix that ends in K=/P the token is /P. *)
C4_KeyNeverSwallowed ==
    MatchDone =>
        \A i \in KeyEquals(out.val.cursor.line_until_cursor) :
            out.val.token = Some(Drop(out.val.cursor.line_until_cursor, i))

(* C4, amended: for every line prefix that ends in K=/P, where the run of  *)
(* component characters that ends in K= does not directly follow a "/",    *)
(* the token is exactly /P; "=" is accepted inside the components of P.    *)
C4_KeyNotSwallowedUnlessAfterSlash ==
    MatchDone =>
        LET src == out.val.cursor.line_until_cursor
        IN  \A i \in KeyEquals(src) :
                (RunStart(src, i) = 1 \/ src[RunStart(src, i) - 1] # "/")
                    => out.val.token = Some(Drop(src, i))

C4_Witness ==
    /\ MatchDone
    /\ LET src == out.val.cursor.line_until_cursor
       IN  \E i \in KeyEquals(src) :
              /\ RunStart(src, i) > 1
              /\ src[RunStart(src, i) - 1] # "/"
              /\ \E k \in 1..(i - 1) : src[k] = "/"
              /\ \E k \in (i + 2)..Len(src) : src[k] = "="
              /\ out.val.token = Some(Drop(src, i))

-----------------------------------------------------------------------------
(* The resolution of a matched token: completion, lines 141-167. *)

AppTs ==
    [scheme |-> "file",
     path |-> <<"/", "p", "r", "o", "j", "/", "s", "r", "c", "/",
                "a", "p", "p", ".", "t", "s">>]

RootDoc == [scheme |-> "file", path |-> <<"/">>]

Untitled == [scheme |-> "untitled", path |-> <<"U", "n", "t", "i", "t", "l", "e", "d">>]

ResolveUris == {AppTs, RootDoc, Untitled}

ResolveHomes == {NoneVal, Some(<<"/", "h">>)}

Proj == <<"p", "r", "o", "j">>

Src == <<"s", "r", "c">>

Lib == <<"l", "i", "b">>

ResolveFs ==
    [dirs  |-> {<<>>, <<Proj>>, <<Proj, Src>>, <<Proj, Lib>>, <<Proj, Src, <<"a">>>>,
                <<<<"h">>>>, <<<<"a">>>>, <<<<"w">>>>},
     links |-> {},
     cwd   |-> <<<<"w">>>>,
     list  |-> <<>>]

ResolveChars == {"a", ".", "/", "~"}

ResolveExamples ==
    {<<".", ".", "/", "l", "i", "b", "/">>,
     <<"l", "i", "b", "/", ".">>,
     <<"~", "/", "l", "i", "b", "/">>,
     <<"f", "i", "l", "e", ":", "/", "/", "/", "a", "/">>,
     <<"f", "i", "l", "e", ":", "/", "/", "a", "/", "b">>,
     <<"f", "i", "l", "e", ":", "/", "/", "/", "%", "6", "1", "/", "b">>}

(* The tokens the matcher can return: the texts it matches whole. *)
ResolveTokens ==
    {t \in TextsUpTo(ResolveChars, MaxTok) \cup ResolveExamples :
        get_path_suffix(t, FALSE) = Some(t)}

InitResolve ==
    /\ ServerOff
    /\ stage = "in"
    /\ out = NoneVal
    /\ \E token \in ResolveTokens, uri \in ResolveUris, home \in ResolveHomes :
          inp = [token |-> token, uri |-> uri, home |-> home]

completion_resolve ==
    LET dir == completion_dir_path(inp.token, inp.uri, inp.home)
    IN  Pure([dir    |-> dir,
              opened |-> IF dir.tag = "some" THEN fs_read_dir(ResolveFs, dir.val)
                         ELSE NoneVal])

NextResolve == completion_resolve

SpecResolve == InitResolve /\ [][NextResolve]_vars

(* The path a token names: decoded when it is a file uri, its leading "~"  *)
(* replaced by the home directory.                                         *)
TokenPath(token, home) ==
    IF starts_with(token, FileScheme)
    THEN file_url_to_path(token)
    ELSE Some(expand_tilde(path_new(token), home))

(* That path, resolved against the parent directory of the document. *)
AgainstDocument(path, uri) ==
    LET doc_dir == parent(to_file_path(uri).val)
    IN  IF is_relative(path) /\ doc_dir.tag = "some"
        THEN [root |-> doc_dir.val.root,
              comps |-> doc_dir.val.comps \o SelectSeq(path.comps, IsNamed)]
        ELSE path

(* The token up to its last "/": the directory part of a partial name. *)
DirectoryPart(token) ==
    Take(token, CHOOSE k \in 1..Len(token) :
                    token[k] = "/" /\ \A j \in (k + 1)..Len(token) : token[j] # "/")

(* C5: the directory a completion enumerates is the token's path, resolved *)
(* against the parent directory of the document when it is relative, if    *)
(* the token ends with "/", and the parent of that path (the directory     *)
(* that holds the partial name) otherwise; ../lib/ in /proj/src/app.ts     *)
(* enumerates /proj/lib.                                                   *)
C5_EnumeratedDirectory ==
    (/\ stage = "done"
     /\ to_file_path(inp.uri).tag = "some"
     /\ TokenPath(inp.token, inp.home).tag = "some") =>
        /\ out.dir = Some(AgainstDocument(
                              TokenPath(DirectoryPart(inp.token), inp.home).val, inp.uri))
        /\ (inp.token = <<".", ".", "/", "l", "i", "b", "/">> /\ inp.uri = AppTs)
               => out.opened = Some(<<Proj, Lib>>)

(* C7: a completion on a document whose location is no local path ends    *)
(* with none for every matched token, never with a defect.                 *)
C7_NonLocalDocumentYieldsNone ==
    (stage = "done" /\ to_file_path(inp.uri).tag = "none") => out.dir = NoneVal

-----------------------------------------------------------------------------
(* read_dir_sorted on the entries of one directory, in every order the     *)
(* filesystem may return them.                                             *)

EntryNames == {<<"a">>, <<"A">>, <<"b">>, <<"B">>, <<".", "a">>}

EntryKinds == {"dir", "file", "symlink", "other"}

Entries == [name : EntryNames, kind : EntryKinds]

(* A directory holds a name once. *)
Listings ==
    {l \in UNION {[1..k -> Entries] : k \in 0..MaxEntries} :
        \A i, j \in 1..Len(l) : i # j => l[i].name # l[j].name}

InitDir ==
    /\ ServerOff
    /\ stage = "in"
    /\ out = NoneVal
    /\ \E l \in Listings : inp = l

list_directory == Pure(read_dir_sorted(inp, FALSE))

NextDir == list_directory

SpecDir == InitDir /\ [][NextDir]_vars

Reorderings(l) ==
    {[i \in 1..Len(l) |-> l[p[i]]] :
        p \in {q \in [1..Len(l) -> 1..Len(l)] : \A i, j \in 1..Len(l) : i # j => q[i] # q[j]}}

(* C6: the listing is the same in whatever order the filesystem returns    *)
(* the entries, every directory precedes every other entry, and names are  *)
(* in case-insensitive order within each group.                            *)
C6_ListingOrderDeterministic ==
    stage = "done" =>
        /\ \A l \in Reorderings(inp) : read_dir_sorted(l, FALSE) = out
        /\ \A i, j \in 1..Len(out) :
              i < j => /\ ~(is_dir(out[j]) /\ ~is_dir(out[i]))
                       /\ is_dir(out[i]) = is_dir(out[j])
                             => str_cmp(to_lowercase(out[i].name),
                                        to_lowercase(out[j].name)) # "Greater"

-----------------------------------------------------------------------------
(* position_to_offset on texts with a character outside the Basic          *)
(* Multilingual Plane; the position's column counts UTF-16 code units.     *)

PosChars == {"a", Astral, LF}

InitPos ==
    /\ ServerOff
    /\ stage = "in"
    /\ out = NoneVal
    /\ \E rope \in TextsUpTo(PosChars, MaxLen), position \in Positions :
          inp = [rope |-> rope, position |-> position]

translate_position ==
    Pure(IF line_to_char_ok(inp.rope, inp.position.line)
         THEN Some(position_to_offset(inp.rope, inp.position))
         ELSE Panic("line_to_char199"))

NextPos == translate_position

SpecPos == InitPos /\ [][NextPos]_vars

len_utf16(c) == IF c = Astral THEN 2 ELSE 1

RECURSIVE Utf16Units(_)
Utf16Units(s) == IF s = <<>> THEN 0 ELSE len_utf16(Head(s)) + Utf16Units(Tail(s))

(* The offsets of the line at which a character starts after exactly       *)
(* `column` UTF-16 code units.                                             *)
ProtocolOffsets(rope, position) ==
    LET first == PlainLineStart(rope, position.line)
    IN  {k \in first..LineEnd(rope, position.line) :
            Utf16Units(slice(rope, first, k)) = position.character}

(* C10: the offset is the one the protocol position points at, also when   *)
(* a character outside the Basic Multilingual Plane precedes the cursor.   *)
C10_OffsetInUtf16Units ==
    (/\ stage = "done"
     /\ inp.position.line < len_lines(inp.rope)
     /\ ProtocolOffsets(inp.rope, inp.position) # {}) =>
        /\ out.tag = "some"
        /\ out.val \in ProtocolOffsets(inp.rope, inp.position)

====
